---- MODULE Spec2Model ----
(***************************************************************************)
(* Device state synchronisation engine of the Tractive Homey app.          *)
(*                                                                         *)
(* The app object (src/lib/App.js, latest iteration, lines 689-1109) owns  *)
(* the single push stream; the devices (src/lib/Device.js, and the         *)
(* heartbeat monitor of src/unnamed/part_004 with the onMessage of         *)
(* src/lib/Client.js:511-530) subscribe to its 'update' events, poll the   *)
(* vendor API and reconcile every snapshot into capability values and      *)
(* flow triggers.                                                          *)
(*                                                                         *)
(* JavaScript is single threaded: every action below is one synchronous    *)
(* segment of a handler, and an `await` on I/O ends the segment.           *)
(***************************************************************************)
EXTENDS Integers, Sequences, FiniteSets, TLC

(***************************************************************************)
(* Bounds of the model                                                     *)
(***************************************************************************)
MaxCalls == 2      \* registerStream invocations that pass the guard
MaxNow == 80       \* last instant of the clock, in seconds
TimeStep == 5      \* the clock advances in steps of this many seconds

(***************************************************************************)
(* Program constants                                                       *)
(***************************************************************************)
HealthySeconds == 10       \* part_004:208  difference <= 10
SuspectFrom == 60          \* part_004:219  difference >= 60
SuspectTo == 75            \* part_004:219  difference <= 75

Devices == {"t1", "t2"}

\* this.stream is null, the string 'register', or a response body; a body is
\* named by the index of the registerStream invocation that fetched it.
StreamNull == 0
StreamRegister == -1

VARIABLES
  stream,          \* App.stream
  controller,      \* App.controller: 0, or the invocation whose AbortController it is
  checkTimer,      \* App.checkTimer is set
  calls,           \* registerStream invocations that passed the guard, in order
  account,         \* what the OAuth2 session store holds
  refreshes,       \* client.refreshToken() requests made so far
  now,             \* Math.floor(Date.now() / 1000)
  initPc,          \* per device: position in onOAuth2Init
  onUpdate,        \* per device: subscribed to the 'update' event
  keepAliveTimer,  \* per device: the checkKeepAlive interval is registered
  syncTimer,       \* per device: the sync interval is registered
  keepAlive,       \* per device: this.keepAlive
  available,       \* per device: getAvailable()
  unavailableMsg,  \* per device: message of the last setUnavailable
  capabilities,    \* per device: the capabilities it declares (hasCapability)
  capabilityValues,\* per device: capability -> last applied value
  settings,        \* per device: getSettings()
  warning,         \* per device: the warning set, "" when unset
  store,           \* per device: the geofence and zone-name caches
  fired,           \* the flow triggers fired by the last reconciliation
  inZone,          \* per device: the tracker is in a power-saving zone, as the
                   \* vendor last reported it in a reconciled payload
  running,         \* per source: the handleSyncData execution that is between
                   \* two of its awaits, with the snapshot it holds
  last             \* the handler that ran last, with its inputs

appVars == <<stream, controller, checkTimer, calls, account, refreshes>>
devVars == <<initPc, onUpdate, keepAliveTimer, syncTimer, keepAlive, available, unavailableMsg>>
dataVars == <<capabilities, capabilityValues, settings, warning, store, fired, inZone, running>>
vars == <<stream, controller, checkTimer, calls, account, refreshes, now,
          initPc, onUpdate, keepAliveTimer, syncTimer, keepAlive, available, unavailableMsg,
          capabilities, capabilityValues, settings, warning, store, fired, inZone, running,
          last>>

Accounts == {"ok", "noToken", "noDevices", "noSession"}

(***************************************************************************)
(* App: stream registration                                                *)
(***************************************************************************)

\* A request is in flight while fetch() is awaited; a connection is open while
\* its response body has the data/close listeners attached and is not closed.
InFlight(i) == calls[i].pc = "fetch"
Open(i) == calls[i].pc = "open"
Connections == {i \in DOMAIN calls : InFlight(i) \/ Open(i)}

\* controller.abort(): an awaited fetch rejects, an open body is destroyed.
Abort(c) ==
  IF c.pc = "fetch" THEN [c EXCEPT !.aborted = TRUE]
  ELSE IF c.pc = "open" THEN [c EXCEPT !.pc = "closed"]
  ELSE c

\* stream.destroy()
Destroy(c) == IF c.pc = "open" THEN [c EXCEPT !.pc = "closed"] ELSE c

UnregisterStreamStuck(cs) ==
  IF stream = StreamNull \/ stream = StreamRegister THEN
    /\ stream' = stream /\ controller' = controller /\ calls' = cs
  ELSE
    /\ stream' = StreamNull
    /\ controller' = 0
    /\ calls' = [i \in DOMAIN cs |->
                  LET a == IF i = controller THEN Abort(cs[i]) ELSE cs[i]
                  IN IF i = stream THEN Destroy(a) ELSE a]

\* App.unregisterStream, applied to the invocations cs.  The 'close' event of
\* a body destroyed here is emitted on the next tick, after stream is null,
\* and its handler sets stream to null again.
UnregisterStream(cs) ==
  IF stream = StreamNull THEN
    /\ stream' = stream /\ controller' = controller /\ calls' = cs
  ELSE IF stream = StreamRegister THEN
    /\ stream' = StreamNull /\ controller' = controller /\ calls' = cs
  ELSE
    /\ stream' = StreamNull
    /\ controller' = 0
    /\ calls' = [i \in DOMAIN cs |->
                  LET a == IF i = controller THEN Abort(cs[i]) ELSE cs[i]
                  IN IF i = stream THEN Destroy(a) ELSE a]

RegisterGuardNone == TRUE

\* if (this.stream) return;
RegisterGuard == stream = StreamNull

RegisterFailedRefreshing(cs, i, status) ==
  /\ refreshes' = refreshes + 1
  /\ UnregisterStream([cs EXCEPT ![i].pc = "done"])

\* The catch block of registerStream for invocation i of cs: refresh on 401,
\* then unregisterStream.
RegisterFailed(cs, i, status) ==
  /\ refreshes' = IF status = 401 THEN refreshes + 1 ELSE refreshes
  /\ UnregisterStream([cs EXCEPT ![i].pc = "done"])

\* App.registerStream up to its first await on I/O: the guard, the 'register'
\* sentinel, registerTimer(), the client and its token, the AbortController.
\* getFirstSavedOAuth2Client is synchronous; when it throws,
\* getSavedOAuth2Client waits a second and tries again (RegisterClient).
RegisterStream ==
  IF RegisterGuard THEN
    /\ Len(calls) < MaxCalls
    /\ checkTimer' = TRUE
    /\ IF account = "noSession" THEN
         /\ stream' = StreamRegister
         /\ calls' = Append(calls, [pc |-> "client", aborted |-> FALSE])
         /\ UNCHANGED <<controller, refreshes>>
       ELSE IF account = "noToken" THEN
         /\ stream' = StreamNull
         /\ calls' = Append(calls, [pc |-> "done", aborted |-> FALSE])
         /\ UNCHANGED <<controller, refreshes>>
       ELSE
         /\ stream' = StreamRegister
         /\ controller' = Len(calls) + 1
         /\ calls' = Append(calls, [pc |-> "fetch", aborted |-> FALSE])
         /\ UNCHANGED refreshes
  ELSE
    UNCHANGED <<stream, checkTimer, calls, controller, refreshes>>

\* registerStream after the second attempt of getSavedOAuth2Client.
RegisterClient(i) ==
  /\ i \in DOMAIN calls /\ calls[i].pc = "client"
  /\ IF account = "noSession" \/ account = "noToken" THEN
       RegisterFailed(calls, i, 0)
     ELSE
       /\ controller' = i
       /\ calls' = [calls EXCEPT ![i].pc = "fetch"]
       /\ UNCHANGED <<stream, refreshes>>
  /\ last' = [op |-> "registerClient", call |-> i]
  /\ UNCHANGED <<checkTimer, account, now>>
  /\ UNCHANGED devVars
  /\ UNCHANGED dataVars

Statuses == {200, 401, 500, 0}   \* 0: the request failed without a response

\* registerStream after `await fetch(...)`.
RegisterResponse(i, status) ==
  /\ i \in DOMAIN calls /\ calls[i].pc = "fetch"
  /\ calls[i].aborted => status = 0
  /\ IF status = 200 THEN
       /\ stream' = i
       /\ calls' = [calls EXCEPT ![i].pc = "open"]
       /\ UNCHANGED <<controller, refreshes>>
     ELSE
       RegisterFailed(calls, i, status)
  /\ last' = [op |-> "registerResponse", call |-> i, status |-> status]
  /\ UNCHANGED <<checkTimer, account, now>>
  /\ UNCHANGED devVars
  /\ UNCHANGED dataVars

\* App.onStreamClosed: the 'close' event of an open body.
OnStreamClosed(i) ==
  /\ i \in DOMAIN calls /\ calls[i].pc = "open"
  /\ stream' = StreamNull
  /\ calls' = [calls EXCEPT ![i].pc = "closed"]
  /\ last' = [op |-> "onStreamClosed", call |-> i]
  /\ UNCHANGED <<controller, checkTimer, account, refreshes, now>>
  /\ UNCHANGED devVars
  /\ UNCHANGED dataVars

CheckStreamUnregistersOnly ==
  /\ checkTimer
  /\ IF account = "noSession" \/ account = "noDevices" THEN
       /\ UnregisterStream(calls)
       /\ UNCHANGED <<checkTimer, refreshes>>
     ELSE
       UNCHANGED <<stream, checkTimer, calls, controller, refreshes>>
  /\ last' = [op |-> "checkStream", pre |-> stream]
  /\ UNCHANGED <<account, now>>
  /\ UNCHANGED devVars
  /\ UNCHANGED dataVars

CheckStreamAlwaysRegisters ==
  /\ checkTimer
  /\ RegisterStream
  /\ last' = [op |-> "checkStream", pre |-> stream]
  /\ UNCHANGED <<account, now>>
  /\ UNCHANGED devVars
  /\ UNCHANGED dataVars

\* App.checkStream, a tick of checkTimer.
CheckStream ==
  /\ checkTimer
  /\ IF account = "noSession" \/ account = "noDevices" THEN
       /\ UnregisterStream(calls)
       /\ UNCHANGED <<checkTimer, refreshes>>
     ELSE
       RegisterStream
  /\ last' = [op |-> "checkStream", pre |-> stream]
  /\ UNCHANGED <<account, now>>
  /\ UNCHANGED devVars
  /\ UNCHANGED dataVars

\* app.unregisterStream() called from outside the app: by a device whose
\* heartbeat is suspect, or when the app is unloaded.
ForceUnregister ==
  /\ UnregisterStream(calls)
  /\ last' = [op |-> "unregisterStream", pre |-> stream]
  /\ UNCHANGED <<checkTimer, account, refreshes, now>>
  /\ UNCHANGED devVars
  /\ UNCHANGED dataVars

\* The session store changes: login, logout, token loss, (un)pairing.
SetAccount(a) ==
  /\ a \in Accounts /\ a # account
  /\ account' = a
  /\ last' = [op |-> "setAccount"]
  /\ UNCHANGED <<stream, controller, checkTimer, calls, refreshes, now>>
  /\ UNCHANGED devVars
  /\ UNCHANGED dataVars

(***************************************************************************)
(* Device: initialisation                                                  *)
(***************************************************************************)

\* Device.onOAuth2Init up to `await this.homey.app.registerStream()`.
DeviceInit(d) ==
  /\ initPc[d].at = "new"
  /\ keepAlive' = [keepAlive EXCEPT ![d] = now]
  /\ onUpdate' = [onUpdate EXCEPT ![d] = TRUE]
  /\ RegisterStream
  /\ initPc' = [initPc EXCEPT ![d] =
        [at |-> "registerStream", call |-> IF Len(calls') > Len(calls) THEN Len(calls') ELSE 0]]
  /\ last' = [op |-> "registerStream", d |-> d, pre |-> stream]
  /\ UNCHANGED <<account, now, keepAliveTimer, syncTimer, available, unavailableMsg>>
  /\ UNCHANGED dataVars

(***************************************************************************)
(* Device: payloads and snapshots                                          *)
(*                                                                         *)
(* A JavaScript object is a function from the names of its own properties; *)
(* `'k' in obj` is k \in DOMAIN obj, and a capability without a value      *)
(* (getCapabilityValue returns null) is a name outside the domain.         *)
(***************************************************************************)
Empty == [k \in {} |-> 0]

toLowerCaseForgotten(s) == s

\* String.prototype.toLowerCase on the vendor's enumerations.
toLowerCase(s) ==
  CASE s = "OPERATIONAL" -> "operational"
    [] s = "POWER_SAVING" -> "power_saving"
    [] s = "NOT_REPORTING" -> "not_reporting"
    [] s = "OUT_OF_BATTERY" -> "out_of_battery"
    [] s = "Power_Saving" -> "power_saving"
    [] s = "CIRCLE" -> "circle"
    [] s = "POLYGON" -> "polygon"
    [] s = "RECTANGLE" -> "rectangle"
    [] s = "SAFE" -> "safe"
    [] s = "DANGER" -> "danger"
    [] s = "GPS" -> "gps"
    [] s = "FULL" -> "full"
    [] OTHER -> s

\* String.prototype.trim
trim(s) ==
  CASE s = " Yard " -> "Yard"
    [] s = "Road " -> "Road"
    [] s = " Home" -> "Home"
    [] s = "  " -> ""
    [] OTHER -> s

\* The static code -> capability table (Enums.TrackerCapabilities), as the
\* pairing code spells it out.
TrackerCapabilities == [BUZZER |-> "buzzer_control", LED |-> "led_control", LT |-> "live_tracking"]

\* geolib.isPointWithinRadius on a flat integer grid: distance < radius.
isPointWithinRadius(p, c, radius) ==
  (p[1] - c[1]) * (p[1] - c[1]) + (p[2] - c[2]) * (p[2] - c[2]) < radius * radius

\* One edge (a, b) of geolib.isPointInPolygon's ray cast; the division of the
\* library is cross-multiplied away.
EdgeCrossed(p, a, b) ==
  /\ \/ (a[2] <= p[2] /\ p[2] < b[2])
     \/ (b[2] <= p[2] /\ p[2] < a[2])
  /\ IF b[2] > a[2]
     THEN (p[1] - a[1]) * (b[2] - a[2]) < (b[1] - a[1]) * (p[2] - a[2])
     ELSE (p[1] - a[1]) * (b[2] - a[2]) > (b[1] - a[1]) * (p[2] - a[2])

RECURSIVE Crossings(_, _, _)
Crossings(p, ring, i) ==
  IF i > Len(ring) THEN 0
  ELSE LET j == IF i = 1 THEN Len(ring) ELSE i - 1
       IN (IF EdgeCrossed(p, ring[i], ring[j]) THEN 1 ELSE 0) + Crossings(p, ring, i + 1)

\* geolib.isPointInPolygon
isPointInPolygon(p, ring) == Crossings(p, ring, 1) % 2 = 1

NoFence == [name |-> "", fence_type |-> "null"]

Contains(fence, p) ==
  \/ /\ fence.shape = "circle"
     /\ isPointWithinRadius(p, fence.coords[1], fence.radius)
  \/ /\ fence.shape \in {"rectangle", "polygon"}
     /\ isPointInPolygon(p, fence.coords)

\* Device.getGeofence: the first cached fence that contains the point.
RECURSIVE getGeofenceFrom(_, _, _)
getGeofenceFrom(fences, p, i) ==
  IF i > Len(fences) THEN NoFence
  ELSE IF Contains(fences[i], p) THEN fences[i]
  ELSE getGeofenceFrom(fences, p, i + 1)

getGeofenceLast(fences, p) ==
  LET hits == {i \in DOMAIN fences : Contains(fences[i], p)}
  IN IF hits = {} THEN NoFence
     ELSE fences[CHOOSE i \in hits : \A j \in hits : j <= i]

getGeofence(fences, p) == getGeofenceFrom(fences, p, 1)

\* Utils.filled / Utils.blank on a string
filled(s) == s # ""

RECURSIVE saveGeofences(_)
saveGeofencesKeepsAll(raw) ==
  IF raw = <<>> THEN <<>>
  ELSE LET e == Head(raw)
       IN <<[e EXCEPT !.shape = toLowerCase(e.shape),
                      !.name = trim(e.name),
                      !.fence_type = toLowerCase(e.fence_type)]>> \o saveGeofences(Tail(raw))

\* Device.saveGeofences: the entries that are kept, normalised.
saveGeofences(raw) ==
  IF raw = <<>> THEN <<>>
  ELSE LET e == Head(raw)
           rest == saveGeofences(Tail(raw))
       IN IF e.active /\ filled(e.name)
          THEN <<[e EXCEPT !.shape = toLowerCase(e.shape),
                           !.name = trim(e.name),
                           !.fence_type = toLowerCase(e.fence_type)]>> \o rest
          ELSE rest

\* saveGeofences throws on an active, named entry without a fence_type
\* (undefined.toLowerCase()).
saveGeofencesThrows(raw) ==
  \E i \in DOMAIN raw : raw[i].active /\ filled(raw[i].name) /\ raw[i].fence_type = "undefined"

\* Device.savePowerSavingZones: id -> trimmed name of the named zones.
savePowerSavingZones(raw) ==
  LET named == {i \in DOMAIN raw : filled(raw[i].name)}
      ids == {raw[i]._id : i \in named}
      lastOf(id) == CHOOSE i \in named : raw[i]._id = id /\ \A j \in named : raw[j]._id = id => j <= i
  IN [id \in ids |-> trim(raw[lastOf(id)].name)]

\* Device.getPowerSavingZoneName; fetched is the name the API returns for the
\* id, or "error" when the lookup fails.
getPowerSavingZoneName(zones, id, fetched) ==
  IF ~filled(id) THEN ""
  ELSE IF id \in DOMAIN zones /\ filled(zones[id]) THEN zones[id]
  ELSE IF fetched = "error" THEN ""
  ELSE trim(fetched)

(***************************************************************************)
(* Device: normalisation (parseData) and enrichment (processData)          *)
(***************************************************************************)

\* obj[k] || null, on strings
Get(obj, k) == IF k \in DOMAIN obj THEN obj[k] ELSE ""

\* Number(x); the vendor sends JSON numbers
Number(x) == x + 0

\* Enums.TrackerNames / Enums.TrackerNamesBySku: "" is a missing entry
TrackerNames(model) ==
  CASE model = "TRNJA4" -> "GPS DOG 4"
    [] model = "TRKAT1_2" -> "GPS CAT"
    [] OTHER -> ""

TrackerNamesBySku(sku) ==
  CASE sku = "TRDOG1" -> "GPS DOG XL"
    [] OTHER -> ""

\* Device.parseData
parseData(raw) ==
  LET state == IF filled(Get(raw, "tracker_state")) THEN raw["tracker_state"] ELSE Get(raw, "state")
      stateReason == IF filled(Get(raw, "tracker_state_reason"))
                     THEN raw["tracker_state_reason"] ELSE Get(raw, "state_reason")
      reason == toLowerCase(stateReason)
      model_name == IF filled(Get(raw, "hw_edition"))
                    THEN raw["model_number"] \o "_" \o raw["hw_edition"]
                    ELSE raw["model_number"]
      named == IF filled(Get(raw, "sku")) THEN TrackerNamesBySku(raw["sku"])
               ELSE TrackerNames(model_name)
      position == raw["position"]
  IN (IF "battery_state" \in DOMAIN raw
        THEN "battery_state" :> toLowerCase(raw["battery_state"]) ELSE Empty)
  @@ (IF "capabilities" \in DOMAIN raw
        THEN "capabilities" :> raw["capabilities"] ELSE Empty)
  @@ (IF "buzzer_control" \in DOMAIN raw
        THEN "buzzer_control" :> raw["buzzer_control"].active ELSE Empty)
  @@ (IF "charging_state" \in DOMAIN raw
        THEN "charging_state" :> (raw["charging_state"] = "CHARGING") ELSE Empty)
  @@ (IF "geofences" \in DOMAIN raw
        THEN "geofences" :> raw["geofences"] ELSE Empty)
  @@ (IF "hardware" \in DOMAIN raw /\ "battery_level" \in DOMAIN raw["hardware"]
        THEN "measure_battery" :> Number(raw["hardware"]["battery_level"]) ELSE Empty)
  @@ (IF "led_control" \in DOMAIN raw
        THEN "led_control" :> raw["led_control"].active ELSE Empty)
  @@ (IF "live_tracking" \in DOMAIN raw
        THEN "live_tracking" :> raw["live_tracking"].active ELSE Empty)
  @@ (IF "model_number" \in DOMAIN raw
        THEN ("model_name" :> model_name)
             @@ ("product_name" :> (IF filled(named) THEN named ELSE "-"))
        ELSE Empty)
  @@ (IF "position" \in DOMAIN raw
        THEN (IF "altitude" \in DOMAIN position
                THEN "altitude" :> Number(position["altitude"]) ELSE Empty)
             @@ (IF "sensor_used" \in DOMAIN position
                THEN "location_source" :> toLowerCase(position["sensor_used"]) ELSE Empty)
             @@ (IF "latlong" \in DOMAIN position
                THEN "latlong" :> position["latlong"] ELSE Empty)
             @@ ("speed" :> Number(IF "speed" \in DOMAIN position THEN position["speed"] ELSE 0))
        ELSE Empty)
  @@ (IF "power_saving_zones" \in DOMAIN raw
        THEN "power_saving_zones" :> raw["power_saving_zones"] ELSE Empty)
  @@ ("power_saving_zone_id" :> Get(raw, "power_saving_zone_id"))
  @@ (IF filled(stateReason) /\ reason = "power_saving"
        THEN "tracker_state" :> "power_saving"
        ELSE IF filled(state) THEN "tracker_state" :> toLowerCase(state) ELSE Empty)
  @@ (IF filled(stateReason) THEN "tracker_state_reason" :> reason ELSE Empty)

Del(f, k) == [x \in DOMAIN f \ {k} |-> f[x]]

\* The address the reverse-geocoder resolves a position to.
AddressOf(p) == [lat |-> p[1], long |-> p[2]]

tryGetAddressKeeps(p, addr) == "address" :> AddressOf(p)

\* try { data.address = await getAddress(...) } catch { delete data.address }:
\* the address field the block leaves in the snapshot.
tryGetAddress(p, addr) == IF addr = "ok" THEN "address" :> AddressOf(p) ELSE Empty

positionChangedAlways(values, p) == TRUE

positionChangedNever(values, p) == FALSE

\* lat !== latitude || long !== longitude, against the stored capability values
positionChanged(values, p) ==
  \/ "latitude" \notin DOMAIN values \/ "longitude" \notin DOMAIN values
  \/ values["latitude"] # p[1] \/ values["longitude"] # p[2]

\* Device.processData.  geofences and zones are the caches as processData
\* leaves them; addr is "ok" or "error" (getAddress throws), fetched the
\* answer of getPowerSavingZone.  lookups counts the calls of getAddress.
processData(values, st, data, addr, fetched) ==
  LET geofences == IF "geofences" \in DOMAIN data
                   THEN saveGeofences(data["geofences"]) ELSE st.geofences
      zones == IF "power_saving_zones" \in DOMAIN data
               THEN savePowerSavingZones(data["power_saving_zones"]) ELSE st.power_saving_zones
      id == data["power_saving_zone_id"]
      p == <<Number(data["latlong"][1]), Number(data["latlong"][2])>>
      geofence == getGeofence(geofences, p)
      zoned == ("power_saving_zone" :> getPowerSavingZoneName(zones, id, fetched))
               @@ ("in_power_saving_zone" :> filled(id))
               @@ data
      located == IF "latlong" \in DOMAIN data
                 THEN IF positionChanged(values, p)
                      THEN tryGetAddress(p, addr)
                           @@ ("geofence" :> geofence.name)
                           @@ ("in_geofence" :> filled(geofence.name))
                           @@ ("geofence_type" :> geofence.fence_type)
                           @@ ("latitude" :> p[1])
                           @@ ("longitude" :> p[2])
                           @@ Del(zoned, "latlong")
                      ELSE Del(zoned, "latlong")
                 ELSE zoned
  IN IF "geofences" \in DOMAIN data /\ saveGeofencesThrows(data["geofences"])
     THEN [threw |-> TRUE, data |-> data, store |-> st, lookups |-> 0]
     ELSE [threw |-> FALSE, data |-> located,
           store |-> [geofences |-> geofences, power_saving_zones |-> zones],
           lookups |-> IF "latlong" \in DOMAIN data /\ positionChanged(values, p)
                       THEN 1 ELSE 0]

(***************************************************************************)
(* Device: reconciliation                                                  *)
(***************************************************************************)

Codes == DOMAIN TrackerCapabilities

\* Device.syncCapabilities: the capability set it leaves.
\* Utils.blank of a list: an absent list and a list without entries are blank.
blank(list) == list = {}

syncCapabilities(caps, data) ==
  LET base == caps \cup {"geofence", "in_geofence", "location_source"}
      list == IF "capabilities" \in DOMAIN data THEN data["capabilities"] ELSE {}
  IN IF blank(list) THEN base
     ELSE (base \cup {TrackerCapabilities[c] : c \in Codes \cap list})
          \ {TrackerCapabilities[c] : c \in Codes \ list}

Trigger(card, token) == [card |-> card, token |-> token]

\* getCapabilityValue(name) is truthy
Truthy(values, name) == name \in DOMAIN values /\ values[name] = TRUE

isSafeZoneAlways(data) == TRUE

\* if (data.geofence_type === 'safe')
isSafeZone(data) == data["geofence_type"] = "safe"

\* if (data.geofence_type === 'danger')
isDangerZone(data) == data["geofence_type"] = "danger"

\* The 'entered' edge of Device.triggerFlows
EnteredGeofence(values, data) == data["in_geofence"] /\ ~Truthy(values, "in_geofence")

\* The 'left' edge of Device.triggerFlows
LeftGeofence(values, data) == ~data["in_geofence"] /\ Truthy(values, "in_geofence")

currentFenceUnset(values) == "null"

\* const currentFence = this.getCapabilityValue('geofence')
currentFence(values) == IF "geofence" \in DOMAIN values THEN values["geofence"] ELSE "null"

\* Device.triggerFlows: the triggers it fires, in order.
triggerFlows(caps, values, data) ==
  (IF "address" \in DOMAIN data
     THEN <<Trigger("location_changed", data["address"])>> ELSE <<>>)
  \o (IF "in_geofence" \in caps /\ "in_geofence" \in DOMAIN data
        THEN (IF EnteredGeofence(values, data)
                THEN <<Trigger("in_geofence_true", data["geofence"])>>
                     \o (IF isSafeZone(data)
                           THEN <<Trigger("in_safe_zone_true", data["geofence"])>> ELSE <<>>)
                     \o (IF isDangerZone(data)
                           THEN <<Trigger("in_danger_zone_true", data["geofence"])>> ELSE <<>>)
                ELSE <<>>)
             \o (IF LeftGeofence(values, data)
                   THEN <<Trigger("in_geofence_false", currentFence(values))>> ELSE <<>>)
        ELSE <<>>)
  \o (IF /\ "in_power_saving_zone" \in caps
         /\ data["in_power_saving_zone"]
         /\ ~Truthy(values, "in_power_saving_zone")
        THEN <<Trigger("in_power_saving_zone_true", data["power_saving_zone"])>> ELSE <<>>)

\* Device.syncSettings: the settings after the batch is applied.
syncSettings(sets, data) ==
  [name \in DOMAIN sets |->
     IF name \in DOMAIN data /\ filled(data[name]) /\ data[name] # sets[name]
     THEN data[name] ELSE sets[name]]

writtenNamesUnguarded(caps, values, data) == DOMAIN data

writtenNamesButGeofence(caps, values, data) == (DOMAIN data \cap caps) \ {"geofence"}

\* Device.syncCapabilityValues: the names it calls setCapabilityValue for,
\* every entry of the snapshot that names a declared capability.
writtenNames(caps, values, data) == DOMAIN data \cap caps

\* Device.syncCapabilityValues: the capability values it leaves.
syncCapabilityValues(caps, values, data) ==
  LET written == writtenNames(caps, values, data)
  IN [name \in DOMAIN values \cup written |->
        IF name \in written THEN data[name] ELSE values[name]]

\* removeCapability on the host: a capability that is removed from the
\* device takes its value with it.
removeCapability(values, caps) == [name \in DOMAIN values \cap caps |-> values[name]]

Reasons == {"not_reporting", "out_of_battery", "shutdown_by_user"}

\* Device.syncWarning
syncWarning(warn, data) ==
  LET state == IF filled(Get(data, "tracker_state")) THEN data["tracker_state"]
               ELSE Get(data, "tracker_state_reason")
  IN IF ~filled(state) THEN warn
     ELSE IF state \in Reasons THEN state
     ELSE ""

catchSyncLogsOnly(d, message) == UNCHANGED <<available, unavailableMsg>>

\* The catch block of handleSyncData: the error is logged and the device is
\* set unavailable with err.message.
catchSync(d, message) ==
  /\ available' = [available EXCEPT ![d] = FALSE]
  /\ unavailableMsg' = [unavailableMsg EXCEPT ![d] = message]

\* Device.handleSyncData for a non-blank payload, all its steps in order.
\* parsed, data and caps are the values the handler computes once and hands
\* from step to step.
handleSyncData(d, raw, addr, fetched) ==
  \E parsed \in {parseData(raw)} :
  \E out \in {processData(capabilityValues[d], store[d], parsed, addr, fetched)} :
  \E data \in {out.data} :
  \E caps \in {syncCapabilities(capabilities[d], data)} :
  LET coords == IF "latlong" \in DOMAIN parsed THEN parsed["latlong"] ELSE <<>>
      call == [op |-> "handleSyncData", d |-> d, raw |-> raw,
               values |-> capabilityValues[d], coords |-> coords, addr |-> addr]
  IN IF out.threw THEN
       /\ catchSync(d, "error")
       /\ fired' = <<>>
       /\ last' = call @@ [threw |-> TRUE, data |-> Empty, written |-> {}, lookups |-> 0]
       /\ UNCHANGED <<capabilities, capabilityValues, settings, warning, store, inZone, running>>
     ELSE
       /\ inZone' = IF "power_saving_zone_id" \in DOMAIN raw
                    THEN [inZone EXCEPT ![d] = filled(raw["power_saving_zone_id"])]
                    ELSE inZone
       /\ store' = [store EXCEPT ![d] = out.store]
       /\ capabilities' = [capabilities EXCEPT ![d] = caps]
       /\ fired' = triggerFlows(caps, capabilityValues[d], data)
       /\ settings' = [settings EXCEPT ![d] = syncSettings(settings[d], data)]
       /\ capabilityValues' =
            [capabilityValues EXCEPT ![d] =
               syncCapabilityValues(caps, removeCapability(capabilityValues[d], caps), data)]
       /\ warning' = [warning EXCEPT ![d] = syncWarning(warning[d], data)]
       /\ available' = [available EXCEPT ![d] = TRUE]
       /\ unavailableMsg' = [unavailableMsg EXCEPT ![d] = "none"]
       /\ UNCHANGED running
       /\ last' = call @@ [threw |-> FALSE, data |-> data, lookups |-> out.lookups,
                           written |-> writtenNames(caps, capabilityValues[d], data)]

\* Device.onOAuth2Init after `await this.homey.app.registerStream()` returned:
\* registerTimers().
DeviceTimers(d) ==
  /\ initPc[d].at = "registerStream"
  /\ initPc[d].call # 0 => calls[initPc[d].call].pc \notin {"client", "fetch"}
  /\ initPc' = [initPc EXCEPT ![d] = [at |-> "ready", call |-> 0]]
  /\ keepAliveTimer' = [keepAliveTimer EXCEPT ![d] = TRUE]
  /\ syncTimer' = [syncTimer EXCEPT ![d] = TRUE]
  /\ last' = [op |-> "registerTimers", d |-> d]
  /\ UNCHANGED <<onUpdate, keepAlive, available, unavailableMsg, now>>
  /\ UNCHANGED appVars
  /\ UNCHANGED dataVars

\* The listener onOAuth2Init registers for 'update' is the function that
\* this.onMessage.bind(this) returned there; this.onMessage is another one.
Registered == "onMessage.bind(this)"
OnMessage == "onMessage"

\* homey.off('update', listener): the subscription that is left.  Only the
\* function that was registered is removed.
off(subscribed, listener) == subscribed /\ listener # Registered

\* Device.onOAuth2Deleted: homey.off('update', this.onMessage), then
\* unregisterTimers().
DeviceDeleted(d) ==
  /\ initPc[d].at = "ready"
  /\ onUpdate' = [onUpdate EXCEPT ![d] = off(onUpdate[d], OnMessage)]
  /\ keepAliveTimer' = [keepAliveTimer EXCEPT ![d] = FALSE]
  /\ syncTimer' = [syncTimer EXCEPT ![d] = FALSE]
  /\ initPc' = [initPc EXCEPT ![d] = [at |-> "deleted", call |-> 0]]
  /\ last' = [op |-> "deleted", d |-> d]
  /\ UNCHANGED <<keepAlive, available, unavailableMsg, now>>
  /\ UNCHANGED appVars
  /\ UNCHANGED dataVars

\* Device.sync, a tick of syncTimer whose getTracker call answers raw.
Sync(d, raw, addr, fetched) ==
  /\ syncTimer[d]
  /\ handleSyncData(d, raw, addr, fetched)
  /\ UNCHANGED <<initPc, onUpdate, keepAliveTimer, syncTimer, keepAlive, now>>
  /\ UNCHANGED appVars

SyncFailedStopsTimer(d) ==
  /\ syncTimer[d]
  /\ syncTimer' = [syncTimer EXCEPT ![d] = FALSE]
  /\ last' = [op |-> "syncFailed", d |-> d]
  /\ UNCHANGED <<initPc, onUpdate, keepAliveTimer, keepAlive, available, unavailableMsg>>
  /\ UNCHANGED dataVars
  /\ UNCHANGED appVars
  /\ UNCHANGED now

\* Device.sync when getTracker fails: the error is logged.
SyncFailed(d) ==
  /\ syncTimer[d]
  /\ last' = [op |-> "syncFailed", d |-> d]
  /\ UNCHANGED devVars
  /\ UNCHANGED dataVars
  /\ UNCHANGED appVars
  /\ UNCHANGED now

onKeepAliveIgnored(msg) == UNCHANGED <<keepAlive, available, unavailableMsg>>

\* TrackerDevice.onMessage of every subscribed device for a keep-alive
\* message: this.keepAlive = data.keepAlive.
onKeepAlive(msg) ==
  /\ keepAlive' = [d \in Devices |-> IF onUpdate[d] THEN msg["keepAlive"] ELSE keepAlive[d]]
  /\ UNCHANGED <<available, unavailableMsg>>

isForAnyone(d, msg) == TRUE

\* the negation of `if (data.tracker_id !== this.getData().id) return;`
isFor(d, msg) == msg["tracker_id"] = d

\* A chunk is the record its text stands for when the text is JSON, and
\* [text |-> t] when the text t is not JSON.
JSONparseAnything(body) ==
  IF "text" \in DOMAIN body
  THEN [message |-> "tracker_status", tracker_id |-> "t1", tracker_state |-> body["text"]]
  ELSE body

\* try { data = JSON.parse(body) } catch (err) { data = {} }
JSONparse(body) == IF "text" \in DOMAIN body THEN Empty ELSE body

\* App.onStreamMessage for a chunk of body i, and the onMessage of every
\* subscribed device when the chunk is emitted as an 'update' event.
OnStreamMessage(i, body, addr, fetched) ==
  /\ i \in DOMAIN calls /\ Open(i)
  /\ \E msg \in {JSONparse(body)} :
       IF "message" \notin DOMAIN msg THEN
         /\ last' = [op |-> "dropped", call |-> i]
         /\ UNCHANGED <<keepAlive, available, unavailableMsg>>
         /\ UNCHANGED dataVars
       ELSE IF msg["message"] = "keep-alive" THEN
         /\ onKeepAlive(msg)
         /\ last' = [op |-> "keepAlive", call |-> i]
         /\ UNCHANGED dataVars
       ELSE IF /\ msg["message"] = "tracker_status"
               /\ \E d \in Devices : onUpdate[d] /\ isFor(d, msg) THEN
         /\ \E d \in {e \in Devices : onUpdate[e] /\ isFor(e, msg)} :
              handleSyncData(d, msg, addr, fetched)
         /\ UNCHANGED keepAlive
       ELSE
         /\ last' = [op |-> "ignored", call |-> i]
         /\ UNCHANGED <<keepAlive, available, unavailableMsg>>
         /\ UNCHANGED dataVars
  /\ UNCHANGED <<initPc, onUpdate, keepAliveTimer, syncTimer, now>>
  /\ UNCHANGED appVars

\* const difference = current - this.keepAlive
Difference(d) == now - keepAlive[d]

HealthyStrict(difference) == difference < HealthySeconds

\* if (difference <= 10)
Healthy(difference) == difference <= HealthySeconds

SuspectExclusive(difference) == difference > SuspectFrom /\ difference <= SuspectTo

SuspectUnbounded(difference) == difference >= SuspectFrom

\* if (difference >= 60 && difference <= 75)
Suspect(difference) == difference >= SuspectFrom /\ difference <= SuspectTo

\* Device.checkKeepAlive, a tick of keepAliveTimer.
CheckKeepAlive(d) ==
  /\ keepAliveTimer[d]
  /\ IF Healthy(Difference(d)) THEN
       /\ available' = [available EXCEPT ![d] = TRUE]
       /\ unavailableMsg' = [unavailableMsg EXCEPT ![d] = "none"]
       /\ UNCHANGED <<stream, controller, calls>>
     ELSE IF ~available[d] THEN
       UNCHANGED <<available, unavailableMsg, stream, controller, calls>>
     ELSE IF Suspect(Difference(d)) THEN
       /\ UnregisterStream(calls)
       /\ UNCHANGED <<available, unavailableMsg>>
     ELSE
       /\ available' = [available EXCEPT ![d] = FALSE]
       /\ unavailableMsg' = [unavailableMsg EXCEPT ![d] = "restart_app"]
       /\ UNCHANGED <<stream, controller, calls>>
  /\ last' = [op |-> "checkKeepAlive", d |-> d, difference |-> Difference(d),
              available |-> available[d], stream |-> stream]
  /\ UNCHANGED <<checkTimer, account, refreshes, now, initPc, onUpdate, keepAliveTimer, syncTimer,
                 keepAlive>>
  /\ UNCHANGED dataVars

\* Time passes.
Advance ==
  /\ now + TimeStep <= MaxNow
  /\ now' = now + TimeStep
  /\ last' = [op |-> "advance"]
  /\ UNCHANGED appVars
  /\ UNCHANGED devVars
  /\ UNCHANGED dataVars

InitApp ==
  /\ stream = StreamNull
  /\ controller = 0
  /\ checkTimer = FALSE
  /\ calls = <<>>
  /\ account = "ok"
  /\ refreshes = 0

\* Driver.getPairCapabilities for a tracker with the vendor codes `codes`
PairCapabilities(codes) ==
  {"measure_battery", "tracker_state", "charging_state", "battery_state", "in_geofence", "geofence"}
  \cup {TrackerCapabilities[c] : c \in Codes \cap codes}
  \cup {"location_source", "altitude", "speed", "latitude", "longitude"}

\* The zone capabilities triggerFlows tests for; a tracker paired with a
\* driver that declares them has both.
ZoneCapabilities == {"power_saving_zone", "in_power_saving_zone"}

\* The two callers of handleSyncData: Device.sync and Device.onMessage.
Sources == {"poll", "stream"}

InitData ==
  /\ capabilities = [d \in Devices |->
       PairCapabilities({"BUZZER"}) \cup (IF d = "t2" THEN ZoneCapabilities ELSE {})]
  /\ capabilityValues = [d \in Devices |-> Empty]
  /\ settings = [d \in Devices |-> [product_name |-> "-", model_name |-> "TRNJA4"]]
  /\ warning = [d \in Devices |-> ""]
  /\ store = [d \in Devices |-> [geofences |-> <<>>, power_saving_zones |-> Empty]]
  /\ fired = <<>>
  /\ inZone = [d \in Devices |-> FALSE]
  /\ running = [src \in Sources |-> [pc |-> "idle"]]

InitDevices ==
  /\ initPc = [d \in Devices |-> [at |-> "new", call |-> 0]]
  /\ onUpdate = [d \in Devices |-> FALSE]
  /\ keepAliveTimer = [d \in Devices |-> FALSE]
  /\ syncTimer = [d \in Devices |-> FALSE]
  /\ keepAlive = [d \in Devices |-> 0]
  /\ available = [d \in Devices |-> TRUE]
  /\ unavailableMsg = [d \in Devices |-> "none"]

\* The app and the devices after construction.
Init ==
  /\ InitApp
  /\ InitDevices
  /\ InitData
  /\ now = 0
  /\ last = [op |-> "init"]

\* Every device initialised and the stream of the first registration open.
InitConnected ==
  /\ stream = 1
  /\ controller = 1
  /\ checkTimer = TRUE
  /\ calls = <<[pc |-> "open", aborted |-> FALSE]>>
  /\ account = "ok"
  /\ refreshes = 0
  /\ initPc = [d \in Devices |-> [at |-> "ready", call |-> 0]]
  /\ onUpdate = [d \in Devices |-> TRUE]
  /\ keepAliveTimer = [d \in Devices |-> TRUE]
  /\ syncTimer = [d \in Devices |-> TRUE]
  /\ keepAlive = [d \in Devices |-> 0]
  /\ available = [d \in Devices |-> TRUE]
  /\ unavailableMsg = [d \in Devices |-> "none"]
  /\ InitData
  /\ now = 0
  /\ last = [op |-> "init"]

(***************************************************************************)
(* The stream supervisor: registration, reconnection, close                *)
(***************************************************************************)
NextStream ==
  \/ \E d \in Devices : DeviceInit(d)
  \/ \E d \in Devices : DeviceTimers(d)
  \/ \E i \in 1..MaxCalls : RegisterClient(i)
  \/ \E i \in 1..MaxCalls, s \in Statuses : RegisterResponse(i, s)
  \/ \E i \in 1..MaxCalls : OnStreamClosed(i)
  \/ CheckStream
  \/ \E a \in Accounts : SetAccount(a)

SpecStream == Init /\ [][NextStream]_vars

(***************************************************************************)
(* The availability monitor: heartbeats, polls and the clock               *)
(***************************************************************************)
KeepAliveMessage == [message |-> "keep-alive", keepAlive |-> now]

StatusMessages ==
  {[message |-> "tracker_status", tracker_id |-> t, tracker_state |-> "OPERATIONAL"] :
     t \in Devices}

MalformedFence ==
  [name |-> "Yard", active |-> TRUE, shape |-> "CIRCLE", fence_type |-> "undefined",
   coords |-> <<<<0, 0>>>>, radius |-> 1]

StatusPolls == {[state |-> "OPERATIONAL"], [geofences |-> <<MalformedFence>>]}

\* A chunk that is not JSON: the page of a proxy, or the first part of a
\* message that was split over two chunks.
MalformedBody == [text |-> "<html>"]

NextKeepAlive ==
  \/ \E i \in 1..MaxCalls, msg \in {KeepAliveMessage, MalformedBody} \cup StatusMessages :
       OnStreamMessage(i, msg, "ok", "error")
  \/ \E d \in Devices, raw \in StatusPolls : Sync(d, raw, "ok", "error")
  \/ \E d \in Devices : SyncFailed(d)
  \/ \E d \in Devices : CheckKeepAlive(d)
  \/ CheckStream
  \/ \E i \in 1..MaxCalls : RegisterResponse(i, 200)
  \/ Advance

SpecKeepAlive == InitConnected /\ [][NextKeepAlive]_vars

(***************************************************************************)
(* The reconciler: positions and geofences from polls and the stream       *)
(***************************************************************************)
Yard ==
  [name |-> " Yard ", active |-> TRUE, shape |-> "CIRCLE", fence_type |-> "SAFE",
   coords |-> <<<<0, 0>>>>, radius |-> 2]

Road ==
  [name |-> "Road ", active |-> TRUE, shape |-> "POLYGON", fence_type |-> "DANGER",
   coords |-> <<<<0, -1>>, <<5, -1>>, <<5, 2>>, <<0, 2>>>>, radius |-> 0]

Home ==
  [name |-> " Home", active |-> FALSE, shape |-> "RECTANGLE", fence_type |-> "SAFE",
   coords |-> <<<<-9, -9>>, <<9, -9>>, <<9, 9>>, <<-9, 9>>>>, radius |-> 0]

FenceLists == {<<Home, Yard, Road>>, <<Road, Yard>>}

\* in Yard only, in Yard and Road, in Road only, in no fence
Points == {<<-1, 0>>, <<1, 0>>, <<3, 0>>, <<9, 9>>}

FlowPolls ==
  {[geofences |-> l] : l \in FenceLists}
  \cup {[position |-> [latlong |-> p]] : p \in Points}

\* Stream updates of the paired trackers, and one of a tracker that is not
\* paired here.
FlowMessages ==
  {[message |-> "tracker_status", tracker_id |-> t, position |-> [latlong |-> p]] :
     t \in Devices, p \in {<<1, 0>>, <<9, 9>>}}
  \cup {[message |-> "tracker_status", tracker_id |-> "t9", position |-> [latlong |-> <<3, 0>>]]}

Lookups == {"ok", "error"}

NextFlows ==
  \/ \E d \in Devices, raw \in FlowPolls, addr \in Lookups : Sync(d, raw, addr, "error")
  \/ \E i \in 1..MaxCalls, msg \in FlowMessages : OnStreamMessage(i, msg, "ok", "error")

SpecFlows == InitConnected /\ [][NextFlows]_vars

(***************************************************************************)
(* Properties of the stream supervisor                                     *)
(***************************************************************************)

\* C1: in every reachable state at most one streaming request is in flight
\* or open with its data/close listeners attached.
AtMostOneConnection == Cardinality(Connections) <= 1

\* C2: registration is single-flight.  A registerStream call made while the
\* stream is not idle (by an initialising device or by checkStream) changes
\* nothing in the app, and no step taken while the stream is not idle starts
\* a new registration, so the devices' concurrent calls start one.
SingleFlight ==
  [][/\ \A d \in Devices : (DeviceInit(d) /\ stream # StreamNull) => UNCHANGED appVars
     /\ (CheckStream /\ stream # StreamNull /\ account = "ok") => UNCHANGED appVars
     /\ stream # StreamNull => Len(calls') = Len(calls)]_vars

\* Both devices have called registerStream, the second call while the first
\* registration was in progress, and one registration was started.
SingleFlightWitness ==
  /\ \A d \in Devices : initPc[d].at # "new"
  /\ last.op = "registerStream" /\ last.pre = StreamRegister
  /\ Len(calls) = 1

\* C35: the close event of a connection that is not the current one (it
\* was released, and a newer registration has started or connected since)
\* leaves the stream status of the newer registration as it is.
StaleCloseIgnored ==
  [][(last'.op = "onStreamClosed" /\ stream # StreamNull /\ stream # last'.call)
       => stream' = stream]_vars

\* C37: a checkStream tick while there is no saved session or no paired
\* device unregisters the stream there is (an open body is destroyed) and
\* starts no registration: the stream status is idle after the tick.
NoDevicesGoesIdle ==
  [][(last'.op = "checkStream" /\ account \in {"noDevices", "noSession"})
       => /\ stream' = StreamNull
          /\ Len(calls') = Len(calls)
          /\ stream \in DOMAIN calls => calls'[stream].pc = "closed"]_vars

\* The tick found an open stream while no device was paired, and closed it.
NoDevicesWitness ==
  /\ last.op = "checkStream" /\ last.pre \in DOMAIN calls
  /\ account = "noDevices"
  /\ stream = StreamNull
  /\ calls[last.pre].pc = "closed"

(***************************************************************************)
(* Properties of the availability monitor                                  *)
(***************************************************************************)

\* C3: checkKeepAlive with 10 < difference < 60 changes no state: the
\* availability stays as it was and the stream is not unregistered.
TolerateSilently ==
  [][\A d \in Devices :
       (CheckKeepAlive(d) /\ Difference(d) > HealthySeconds /\ Difference(d) < SuspectFrom)
         => UNCHANGED <<available, unavailableMsg, stream, controller, calls>>]_vars

\* C4 as claimed: checkKeepAlive with 60 <= difference <= 75 unregisters the
\* stream and the device is available after the tick.
SuspectUnregisters ==
  [][\A d \in Devices :
       (CheckKeepAlive(d) /\ Difference(d) >= SuspectFrom /\ Difference(d) <= SuspectTo)
         => (stream' = StreamNull /\ available'[d])]_vars

\* C4 amended: on a device that is available when the tick runs,
\* checkKeepAlive with 60 <= difference <= 75 unregisters the stream (the
\* status is idle and an open body is closed) and leaves the device
\* available; on an unavailable device the tick changes nothing.
SuspectUnregistersAvailable ==
  [][\A d \in Devices :
       (CheckKeepAlive(d) /\ Difference(d) >= SuspectFrom /\ Difference(d) <= SuspectTo)
         => IF available[d]
            THEN /\ stream' = StreamNull
                 /\ stream > 0 => calls'[stream].pc = "closed"
                 /\ available'[d]
                 /\ UNCHANGED unavailableMsg
            ELSE UNCHANGED <<available, unavailableMsg, stream, controller, calls>>]_vars

\* An available device ticked at 60 <= difference <= 75 with the stream
\* open: the stream is idle and the device is still available.
SuspectWitness ==
  /\ last.op = "checkKeepAlive"
  /\ last.difference >= SuspectFrom /\ last.difference <= SuspectTo
  /\ last.available /\ last.stream > 0
  /\ stream = StreamNull /\ available[last.d]

\* C5 as claimed: after checkKeepAlive with difference > 75 the device is
\* unavailable with the restart-required reason.
TimeoutRestartReason ==
  [][\A d \in Devices :
       (CheckKeepAlive(d) /\ Difference(d) > SuspectTo)
         => (~available'[d] /\ unavailableMsg'[d] = "restart_app")]_vars

\* C5 amended: after checkKeepAlive with difference > 75 the device is
\* unavailable; the reason is restart-required if the device was available
\* when the tick ran, and the reason it already had otherwise.
TimeoutUnavailable ==
  [][\A d \in Devices :
       (CheckKeepAlive(d) /\ Difference(d) > SuspectTo)
         => /\ ~available'[d]
            /\ unavailableMsg'[d] = IF available[d] THEN "restart_app" ELSE unavailableMsg[d]
            /\ UNCHANGED <<stream, controller, calls>>]_vars

\* An available device ticked at difference > 75 and is now unavailable with
\* the restart-required reason.
TimeoutWitness ==
  /\ last.op = "checkKeepAlive" /\ last.difference > SuspectTo /\ last.available
  /\ ~available[last.d] /\ unavailableMsg[last.d] = "restart_app"

\* C6: a device marked unavailable by the heartbeat timeout stays
\* unavailable as long as no fresh keep-alive has arrived (difference is
\* still above 75); neither a poll nor a tracker_status message makes it
\* available.
TimeoutTerminal ==
  [][\A d \in Devices :
       (~available[d] /\ unavailableMsg[d] = "restart_app" /\ Difference(d) > SuspectTo)
         => ~available'[d]]_vars

\* C7: after checkKeepAlive with difference <= 10 the device is available
\* and the stream is as it was.
HealthyAvailable ==
  [][\A d \in Devices :
       (CheckKeepAlive(d) /\ Difference(d) <= HealthySeconds)
         => (available'[d] /\ UNCHANGED <<stream, controller, calls>>)]_vars

\* An unavailable device ticked at difference <= 10 with the stream open: it
\* is available and the stream is still open.
HealthyWitness ==
  /\ last.op = "checkKeepAlive" /\ last.difference <= HealthySeconds /\ ~last.available
  /\ available[last.d] /\ last.stream > 0 /\ stream = last.stream

(***************************************************************************)
(* Properties of the reconciler                                            *)
(***************************************************************************)

\* The triggers of card `card` among the fired ones
Of(seq, card) == {i \in DOMAIN seq : seq[i].card = card}

\* A reconciliation of device d that did not throw has just run.
Reconciled(d) == last'.op = "handleSyncData" /\ last'.d = d /\ ~last'.threw

\* Exactly n triggers of the card were fired, each carrying the token.
FiredWith(seq, card, n, token) ==
  /\ Cardinality(Of(seq, card)) = n
  /\ \A i \in Of(seq, card) : seq[i].token = token

\* C8: when the stored in_geofence is not true and the snapshot has
\* in_geofence = true, geofence = G and geofence_type = T, the reconciliation
\* fires exactly one 'entered geofence' trigger carrying G, one 'entered safe
\* zone' trigger iff T is safe, one 'entered danger zone' trigger iff T is
\* danger, and no 'left geofence' trigger.
EnteredFiresOnce ==
  [][\A d \in Devices :
       (/\ Reconciled(d)
        /\ ~Truthy(capabilityValues[d], "in_geofence")
        /\ "in_geofence" \in DOMAIN last'.data
        /\ last'.data["in_geofence"])
         => LET G == last'.data["geofence"]
                T == last'.data["geofence_type"]
            IN /\ FiredWith(fired', "in_geofence_true", 1, G)
               /\ FiredWith(fired', "in_safe_zone_true", IF T = "safe" THEN 1 ELSE 0, G)
               /\ FiredWith(fired', "in_danger_zone_true", IF T = "danger" THEN 1 ELSE 0, G)
               /\ Of(fired', "in_geofence_false") = {}]_vars

\* A device stored outside every fence was reconciled with a position inside
\* the danger fence: 'entered geofence' and 'entered danger zone' fired once
\* with its name, 'entered safe zone' and 'left geofence' did not.
EnteredWitness ==
  /\ last.op = "handleSyncData" /\ ~last.threw
  /\ "in_geofence" \in DOMAIN last.values /\ last.values["in_geofence"] = FALSE
  /\ "in_geofence" \in DOMAIN last.data /\ last.data["in_geofence"]
  /\ last.data["geofence"] = "Road" /\ last.data["geofence_type"] = "danger"
  /\ FiredWith(fired, "in_geofence_true", 1, "Road")
  /\ FiredWith(fired, "in_danger_zone_true", 1, "Road")
  /\ Of(fired, "in_safe_zone_true") = {}
  /\ Of(fired, "in_geofence_false") = {}

\* C9: when the stored in_geofence is true with stored geofence name P and
\* the snapshot has in_geofence = false, the reconciliation fires exactly one
\* 'left geofence' trigger carrying P, the name stored before the update is
\* committed, and no 'entered' trigger.
LeftFiresOnce ==
  [][\A d \in Devices :
       (/\ Reconciled(d)
        /\ Truthy(capabilityValues[d], "in_geofence")
        /\ "geofence" \in DOMAIN capabilityValues[d]
        /\ "in_geofence" \in DOMAIN last'.data
        /\ ~last'.data["in_geofence"])
         => /\ FiredWith(fired', "in_geofence_false", 1, capabilityValues[d]["geofence"])
            /\ Of(fired', "in_geofence_true") = {}
            /\ Of(fired', "in_safe_zone_true") = {}
            /\ Of(fired', "in_danger_zone_true") = {}]_vars

\* A device stored in the fence Yard was reconciled with a position outside
\* every fence: one 'left geofence' trigger carries Yard, and the stored name
\* is blank after the update.
LeftWitness ==
  /\ last.op = "handleSyncData" /\ ~last.threw
  /\ Truthy(last.values, "in_geofence") /\ last.values["geofence"] = "Yard"
  /\ "in_geofence" \in DOMAIN last.data /\ ~last.data["in_geofence"]
  /\ FiredWith(fired, "in_geofence_false", 1, "Yard")
  /\ Of(fired, "in_geofence_true") = {}
  /\ capabilityValues[last.d]["geofence"] = ""

\* C10: a reconciliation that leaves the geofence membership as it was (not
\* in a fence before and after, or in a fence before and after) fires none
\* of the 'entered geofence', 'entered safe zone', 'entered danger zone' and
\* 'left geofence' triggers, and a reconciliation whose coordinates equal
\* the stored latitude and longitude fires no 'location changed' trigger.
SteadyStateSilent ==
  [][\A d \in Devices :
       Reconciled(d) =>
         /\ (Truthy(capabilityValues[d], "in_geofence")
               = Truthy(capabilityValues'[d], "in_geofence"))
              => /\ Of(fired', "in_geofence_true") = {}
                 /\ Of(fired', "in_safe_zone_true") = {}
                 /\ Of(fired', "in_danger_zone_true") = {}
                 /\ Of(fired', "in_geofence_false") = {}
         /\ (/\ last'.coords # <<>>
             /\ "latitude" \in DOMAIN capabilityValues[d]
             /\ "longitude" \in DOMAIN capabilityValues[d]
             /\ capabilityValues[d]["latitude"] = last'.coords[1]
             /\ capabilityValues[d]["longitude"] = last'.coords[2])
              => Of(fired', "location_changed") = {}]_vars

\* A device stored in a fence was reconciled with the coordinates it already
\* had while the address lookup works: nothing fired and it is still in the
\* fence.
SteadyWitness ==
  /\ last.op = "handleSyncData" /\ ~last.threw /\ last.addr = "ok"
  /\ last.coords # <<>>
  /\ Truthy(last.values, "in_geofence")
  /\ last.values["latitude"] = last.coords[1]
  /\ last.values["longitude"] = last.coords[2]
  /\ Truthy(capabilityValues[last.d], "in_geofence")
  /\ fired = <<>>

Enrichment == {"address", "geofence", "in_geofence", "geofence_type", "latitude", "longitude"}

\* The coordinates of the reconciled payload differ from the latitude and
\* longitude that were stored when the reconciliation began.
Moved(d) ==
  /\ last'.coords # <<>>
  /\ \/ "latitude" \notin DOMAIN capabilityValues[d]
     \/ "longitude" \notin DOMAIN capabilityValues[d]
     \/ capabilityValues[d]["latitude"] # last'.coords[1]
     \/ capabilityValues[d]["longitude"] # last'.coords[2]

\* C31: processData asks for the address and resolves the geofence exactly
\* when the payload's coordinates differ from the stored latitude and
\* longitude; when they are equal (or the payload has no coordinates) no
\* address lookup is made and the snapshot has no address, geofence,
\* in_geofence, latitude or longitude.
EnrichedOnlyWhenMoved ==
  [][\A d \in Devices :
       Reconciled(d) =>
         /\ Moved(d) <=> last'.lookups = 1
         /\ Moved(d) => {"geofence", "in_geofence", "latitude", "longitude"}
                           \subseteq DOMAIN last'.data
         /\ ~Moved(d) => /\ last'.lookups = 0
                         /\ DOMAIN last'.data \cap Enrichment = {}]_vars

\* A payload repeated the coordinates a device has stored, while the
\* address lookup works: no lookup was made and the snapshot has none of
\* the enrichment fields, the stored position and geofence are as before.
EnrichedWitness ==
  /\ last.op = "handleSyncData" /\ ~last.threw /\ last.addr = "ok"
  /\ last.coords # <<>>
  /\ "latitude" \in DOMAIN last.values /\ last.values["latitude"] = last.coords[1]
  /\ "longitude" \in DOMAIN last.values /\ last.values["longitude"] = last.coords[2]
  /\ last.lookups = 0
  /\ DOMAIN last.data \cap Enrichment = {}
  /\ capabilityValues[last.d]["geofence"] = "Yard"

\* C32: when getAddress throws for a changed position the snapshot has no
\* address and no 'location changed' trigger fires, while the geofence is
\* resolved from the cache, the latitude and longitude are updated, the
\* values of the declared capabilities are stored and the device ends the
\* cycle available.
LookupFailureDropsAddress ==
  [][\A d \in Devices :
       (Reconciled(d) /\ Moved(d) /\ last'.addr = "error") =>
         LET data == last'.data
             fence == getGeofence(store'[d].geofences, last'.coords)
         IN /\ "address" \notin DOMAIN data
            /\ Of(fired', "location_changed") = {}
            /\ Get(data, "geofence") = fence.name
            /\ Get(data, "in_geofence") = filled(fence.name)
            /\ Get(data, "latitude") = last'.coords[1]
            /\ Get(data, "longitude") = last'.coords[2]
            /\ \A name \in {"geofence", "in_geofence", "latitude", "longitude"} \cap capabilities'[d] :
                 Get(capabilityValues'[d], name) = Get(data, name)
            /\ available'[d]]_vars

\* The address lookup failed for a position inside the fence Road that the
\* device was not in: the device entered the fence without a 'location
\* changed' trigger and is available.
LookupFailureWitness ==
  /\ last.op = "handleSyncData" /\ ~last.threw /\ last.addr = "error"
  /\ last.coords = <<3, 0>>
  /\ ~Truthy(last.values, "in_geofence")
  /\ "address" \notin DOMAIN last.data
  /\ Of(fired, "location_changed") = {}
  /\ FiredWith(fired, "in_geofence_true", 1, "Road")
  /\ Get(capabilityValues[last.d], "geofence") = "Road"
  /\ Get(capabilityValues[last.d], "latitude") = 3
  /\ available[last.d]

\* C36: the stored in_geofence is true exactly when the stored geofence is
\* a fence name that is not empty.
MembershipMatchesName ==
  \A d \in Devices :
    Truthy(capabilityValues[d], "in_geofence")
      <=> ("geofence" \in DOMAIN capabilityValues[d] /\ capabilityValues[d]["geofence"] # "")

\* A device stored in Yard moved into Road: in_geofence is still true and
\* the stored name is the new one; the other device is in no fence.
MembershipWitness ==
  /\ last.op = "handleSyncData" /\ ~last.threw
  /\ Truthy(last.values, "in_geofence") /\ last.values["geofence"] = "Yard"
  /\ Truthy(capabilityValues[last.d], "in_geofence")
  /\ capabilityValues[last.d]["geofence"] = "Road"
  /\ \E e \in Devices :
       /\ "in_geofence" \in DOMAIN capabilityValues[e]
       /\ ~capabilityValues[e]["in_geofence"]
       /\ capabilityValues[e]["geofence"] = ""

(***************************************************************************)
(* The reconciler: power-saving zones                                      *)
(***************************************************************************)
ZoneList == <<[_id |-> "z1", name |-> " Home"], [_id |-> "z2", name |-> ""]>>

\* Polls report the zone the tracker is in ("" is the vendor's null), with
\* or without the list of zones.
ZonePolls ==
  {[power_saving_zone_id |-> z] : z \in {"", "z1", "z2"}}
  \cup {[power_saving_zone_id |-> "z1", power_saving_zones |-> ZoneList]}

\* Stream updates: partial ones without a power_saving_zone_id, and one
\* that carries it.
ZoneMessages ==
  {[message |-> "tracker_status", tracker_id |-> t, tracker_state |-> "OPERATIONAL"] :
     t \in Devices}
  \cup {[message |-> "tracker_status", tracker_id |-> t, power_saving_zone_id |-> "z1"] :
          t \in Devices}

ZoneAnswers == {"error", "Shed "}

NextZones ==
  \/ \E d \in Devices, raw \in ZonePolls, z \in ZoneAnswers : Sync(d, raw, "ok", z)
  \/ \E i \in 1..MaxCalls, msg \in ZoneMessages, z \in ZoneAnswers :
       OnStreamMessage(i, msg, "ok", z)

SpecZones == InitConnected /\ [][NextZones]_vars

\* C11: the 'entered power-saving zone' trigger fires exactly when the
\* tracker went from outside a zone to inside one: a reconciliation fires
\* it once if the vendor's reports show that change and not at all
\* otherwise, whatever partial stream messages came in between.
EnteredZoneOnRealChange ==
  [][\A d \in Devices :
       (Reconciled(d) /\ "in_power_saving_zone" \in capabilities'[d])
         => Cardinality(Of(fired', "in_power_saving_zone_true"))
              = IF ~inZone[d] /\ inZone'[d] THEN 1 ELSE 0]_vars

Canonical ==
  {"speed", "in_power_saving_zone", "power_saving_zone", "tracker_state", "measure_battery",
   "battery_state", "charging_state", "buzzer_control", "led_control", "live_tracking"}

\* The payload has the vendor field that the canonical field is made from.
Carries(raw, name) ==
  CASE name \in {"in_power_saving_zone", "power_saving_zone"} ->
         "power_saving_zone_id" \in DOMAIN raw
    [] name = "speed" -> "position" \in DOMAIN raw /\ "speed" \in DOMAIN raw["position"]
    [] name = "measure_battery" ->
         "hardware" \in DOMAIN raw /\ "battery_level" \in DOMAIN raw["hardware"]
    [] name = "tracker_state" ->
         DOMAIN raw \cap {"tracker_state", "state", "tracker_state_reason", "state_reason"} # {}
    [] OTHER -> name \in DOMAIN raw

\* C33: a canonical field is in the snapshot only if the payload has the
\* vendor field it is made from, so a reconciliation leaves the stored
\* value of every capability whose field the payload did not carry as it
\* was.
PartialLeavesUntouched ==
  [][\A d \in Devices :
       Reconciled(d) =>
         \A name \in Canonical :
           ~Carries(last'.raw, name) =>
             /\ name \notin DOMAIN last'.data
             /\ name \in DOMAIN capabilityValues[d] \cap capabilities'[d]
                  => Get(capabilityValues'[d], name) = capabilityValues[d][name]]_vars

(***************************************************************************)
(* Properties of the reconciler: writes                                    *)
(***************************************************************************)

\* The reconciliation that just ran applied to device d the payload that the
\* reconciliation before it applied to d.
AppliedAgain(d) ==
  /\ last.op = "handleSyncData" /\ last.d = d /\ ~last.threw
  /\ Reconciled(d)
  /\ last'.raw = last.raw

\* C12: applying the same snapshot twice in succession through
\* handleSyncData makes no setCapabilityValue call in the second
\* application.
SecondApplicationWritesNothing ==
  [][\A d \in Devices : AppliedAgain(d) => last'.written = {}]_vars

(***************************************************************************)
(* The normaliser: tracker states and their reasons                        *)
(***************************************************************************)
States == {"OPERATIONAL", "NOT_REPORTING"}

StateReasons == {"POWER_SAVING", "Power_Saving", "power_saving", "OUT_OF_BATTERY"}

\* Polls carry state / state_reason, stream updates tracker_state /
\* tracker_state_reason; the state and the reason may each be missing.
StatePolls ==
  {[state |-> st] : st \in States}
  \cup {[state_reason |-> r] : r \in StateReasons}
  \cup {[state |-> st, state_reason |-> r] : st \in States, r \in StateReasons}

StateMessages ==
  {[message |-> "tracker_status", tracker_id |-> t, tracker_state |-> st] :
     t \in Devices, st \in States}
  \cup {[message |-> "tracker_status", tracker_id |-> t, tracker_state_reason |-> r] :
          t \in Devices, r \in StateReasons}
  \cup {[message |-> "tracker_status", tracker_id |-> t, tracker_state |-> st,
         tracker_state_reason |-> r] : t \in Devices, st \in States, r \in StateReasons}

NextStates ==
  \/ \E d \in Devices, raw \in StatePolls \cup {[geofences |-> <<MalformedFence>>]} :
       Sync(d, raw, "ok", "error")
  \/ \E i \in 1..MaxCalls, msg \in StateMessages : OnStreamMessage(i, msg, "ok", "error")

SpecStates == InitConnected /\ [][NextStates]_vars

\* The payload's state reason is power_saving in some letter case.
SaysPowerSaving(raw) ==
  \/ "state_reason" \in DOMAIN raw
       /\ raw["state_reason"] \in {"POWER_SAVING", "Power_Saving", "power_saving"}
  \/ "tracker_state_reason" \in DOMAIN raw
       /\ raw["tracker_state_reason"] \in {"POWER_SAVING", "Power_Saving", "power_saving"}

\* C13: a payload, poll-shaped or stream-shaped, whose state reason is
\* power_saving in any letter case is normalised to tracker_state =
\* power_saving whatever its literal state, and after its reconciliation
\* the stored tracker_state capability is power_saving.
PowerSavingOverrides ==
  [][\A d \in Devices :
       (last'.op = "handleSyncData" /\ last'.d = d /\ SaysPowerSaving(last'.raw))
         => /\ Get(parseData(last'.raw), "tracker_state") = "power_saving"
            /\ ~last'.threw =>
                 /\ Get(last'.data, "tracker_state") = "power_saving"
                 /\ "tracker_state" \in last'.written
                 /\ Get(capabilityValues'[d], "tracker_state") = "power_saving"]_vars

\* A device stored as operational reconciled a poll whose literal state is
\* OPERATIONAL and whose reason is spelt Power_Saving: it is stored as
\* power_saving.
PowerSavingWitness ==
  /\ last.op = "handleSyncData" /\ ~last.threw
  /\ last.raw = [state |-> "OPERATIONAL", state_reason |-> "Power_Saving"]
  /\ "tracker_state" \in DOMAIN last.values /\ last.values["tracker_state"] = "operational"
  /\ capabilityValues[last.d]["tracker_state"] = "power_saving"

(***************************************************************************)
(* The reconciler: the capability set                                      *)
(***************************************************************************)

\* Polls with the vendor's capability-code list, every list over the codes
\* of the table and one with a code the table does not know.
CapabilityPolls ==
  {[capabilities |-> l] : l \in SUBSET Codes} \cup {[capabilities |-> {"BUZZER", "GPS"}]}

\* Stream updates with the state of the LED, sent whether or not the device
\* declares led_control at that time.
ControlMessages ==
  {[message |-> "tracker_status", tracker_id |-> t, led_control |-> [active |-> a]] :
     t \in Devices, a \in BOOLEAN}

NextCapabilities ==
  \/ \E d \in Devices, raw \in CapabilityPolls : Sync(d, raw, "ok", "error")
  \/ \E i \in 1..MaxCalls, msg \in StatusMessages \cup ControlMessages :
       OnStreamMessage(i, msg, "ok", "error")

SpecCapabilities == InitConnected /\ [][NextCapabilities]_vars

\* The capabilities the table maps from the codes cs
Mapped(cs) == {TrackerCapabilities[c] : c \in Codes \cap cs}

\* C14: after syncCapabilities processed a poll whose capability-code list
\* is L, the empty list included, the device declares every capability the
\* table maps from a code in L and no mapped capability whose code is not in
\* L; the additions are the mapped capabilities newly in L, the removals
\* the mapped ones no longer in L.
CapabilitiesFollowCodes ==
  [][\A d \in Devices :
       (Reconciled(d) /\ "capabilities" \in DOMAIN last'.raw)
         => LET L == last'.raw["capabilities"]
            IN /\ capabilities'[d] \cap Mapped(Codes) = Mapped(L)
               /\ capabilities'[d] \ capabilities[d] = Mapped(L) \ capabilities[d]
               /\ capabilities[d] \ capabilities'[d]
                    = (capabilities[d] \cap Mapped(Codes)) \ Mapped(L)]_vars

(***************************************************************************)
(* Properties: geofence lookup                                             *)
(***************************************************************************)

\* The cached fences of device d that contain the point, by position.
Hits(d, p) == {i \in DOMAIN store[d].geofences : Contains(store[d].geofences[i], p)}

\* C15: the geofence lookup returns the first fence in cache order that
\* contains the point (of two fences that both contain it, the earlier one),
\* and the neutral fence (empty name, no fence type) when none contains it,
\* which gives in_geofence = false.
FirstFenceWins ==
  [][\A d \in Devices :
       (Reconciled(d) /\ "geofence" \in DOMAIN last'.data)
         => LET fences == store'[d].geofences
                hits == {i \in DOMAIN fences : Contains(fences[i], last'.coords)}
                first == CHOOSE i \in hits : \A j \in hits : i <= j
            IN IF hits = {}
               THEN /\ last'.data["geofence"] = ""
                    /\ last'.data["geofence_type"] = "null"
                    /\ last'.data["in_geofence"] = FALSE
               ELSE /\ last'.data["geofence"] = fences[first].name
                    /\ last'.data["geofence_type"] = fences[first].fence_type
                    /\ last'.data["in_geofence"] = TRUE]_vars

\* A position inside two cached fences was looked up and the snapshot names
\* the earlier of the two.
FirstFenceWitness ==
  /\ last.op = "handleSyncData" /\ ~last.threw
  /\ "geofence" \in DOMAIN last.data
  /\ Cardinality(Hits(last.d, last.coords)) >= 2
  /\ \E i \in Hits(last.d, last.coords) :
       /\ \A j \in Hits(last.d, last.coords) : i <= j
       /\ last.data["geofence"] = store[last.d].geofences[i].name

(***************************************************************************)
(* Properties: chunks of the stream                                        *)
(***************************************************************************)

\* C16: a chunk of the stream that is not JSON is dropped: no event reaches
\* a device (nothing of the devices or of their data changes), the stream
\* status and the open body stay as they were, and a well-formed chunk that
\* comes later on the same body is still dispatched.
MalformedDropped ==
  [][\A i \in 1..MaxCalls :
       OnStreamMessage(i, MalformedBody, "ok", "error")
         => /\ last'.op = "dropped"
            /\ UNCHANGED appVars
            /\ UNCHANGED devVars
            /\ UNCHANGED dataVars
            /\ \A msg \in StatusMessages :
                 (ENABLED OnStreamMessage(i, msg, "ok", "error"))']_vars

\* A malformed chunk was just dropped on the connected stream and the next
\* status message can be delivered.
MalformedWitness ==
  /\ last.op = "dropped"
  /\ stream = last.call /\ Open(last.call)
  /\ \A msg \in StatusMessages :
       ENABLED OnStreamMessage(last.call, msg, "ok", "error")

\* C17: a keep-alive message sets the last-heartbeat timestamp of every
\* subscribed device to the keepAlive value it carries and does nothing
\* else: no capability, capability value, setting, warning, cache or
\* availability is written, no flow trigger fires, the stream is untouched.
KeepAliveOnlyStamps ==
  [][\A i \in 1..MaxCalls :
       OnStreamMessage(i, KeepAliveMessage, "ok", "error")
         => /\ \A d \in Devices :
                 keepAlive'[d] = IF onUpdate[d] THEN KeepAliveMessage["keepAlive"]
                                 ELSE keepAlive[d]
            /\ UNCHANGED <<available, unavailableMsg>>
            /\ UNCHANGED dataVars
            /\ UNCHANGED appVars]_vars

\* A keep-alive message with a new timestamp was just handled while a device
\* was unavailable: the timestamps are the message's, the device is still
\* unavailable.
KeepAliveWitness ==
  /\ last.op = "keepAlive" /\ now > HealthySeconds
  /\ \A d \in Devices : keepAlive[d] = now
  /\ \E d \in Devices : ~available[d]

\* What a device holds apart from its heartbeat timestamp.
Held(d) ==
  <<capabilities[d], capabilityValues[d], settings[d], warning[d], store[d],
    available[d], unavailableMsg[d], inZone[d]>>

\* C18: a tracker_status message with tracker id T reaches every subscribed
\* device, and only the device whose id is T reconciles: every other device
\* keeps its capabilities, capability values, settings, warning,
\* availability and caches, and the triggers fired are those of T's
\* reconciliation; when no device has the id T nothing changes at all.
OnlyAddresseeReconciles ==
  [][/\ (last'.op = "handleSyncData" /\ "message" \in DOMAIN last'.raw)
          => /\ last'.raw["tracker_id"] = last'.d
             /\ \A d \in Devices \ {last'.d} : Held(d)' = Held(d)
     /\ last'.op = "ignored"
          => /\ UNCHANGED dataVars
             /\ \A d \in Devices : Held(d)' = Held(d)]_vars

\* A stream message for one device was reconciled and fired a trigger while
\* the other device holds a different position.
AddresseeWitness ==
  /\ last.op = "handleSyncData" /\ ~last.threw
  /\ "message" \in DOMAIN last.raw
  /\ fired # <<>>
  /\ \E e \in Devices \ {last.d} :
       /\ "latitude" \in DOMAIN capabilityValues[e]
       /\ "latitude" \in DOMAIN capabilityValues[last.d]
       /\ capabilityValues[e]["latitude"] # capabilityValues[last.d]["latitude"]

(***************************************************************************)
(* Properties: failed registrations and closed streams                     *)
(***************************************************************************)

\* The registerStream invocations that have not returned yet.
Pending(cs) == {i \in DOMAIN cs : cs[i].pc \in {"client", "fetch"}}

\* C19: when a registration fails (no session, an HTTP status that is not
\* ok, a request that failed without a response) or the remote end closes
\* the stream, the stream status is idle afterwards; a token refresh is
\* requested exactly when the failure is an HTTP 401; and the failure
\* itself starts no new registration, which is left to checkStream.
FailureGoesIdle ==
  [][/\ \/ last'.op = "registerResponse" /\ last'.status # 200
        \/ last'.op = "registerClient" /\ calls'[last'.call].pc = "done"
        \/ last'.op = "onStreamClosed"
          => /\ stream' = StreamNull
             /\ Len(calls') = Len(calls)
             /\ Pending(calls') \subseteq Pending(calls)
     /\ (Len(calls') > Len(calls) /\ calls'[Len(calls')].pc = "done")
          => stream' = StreamNull /\ Pending(calls') \subseteq Pending(calls)
     /\ refreshes' = IF last'.op = "registerResponse" /\ last'.status = 401
                     THEN refreshes + 1 ELSE refreshes]_vars

\* A registration was just answered 401 after an earlier one had failed with
\* another status: one refresh was requested and the status is idle.
FailureWitness ==
  /\ last.op = "registerResponse" /\ last.status = 401
  /\ last.call > 1
  /\ refreshes = 1
  /\ stream = StreamNull

\* C20: unregisterStream cancels a registration in flight: when the status
\* goes from 'register' to idle while a request is still awaited, that
\* request is aborted, so that its response is never attached as the stream.
UnregisterAbortsRequest ==
  [][\A i \in DOMAIN calls :
       (/\ stream = StreamRegister /\ stream' = StreamNull
        /\ InFlight(i) /\ calls'[i].pc = "fetch")
         => calls'[i].aborted]_vars

\* C21: a registerStream invocation that finds no saved client or no access
\* token ends without having opened a request, and when it ends the stream
\* status is idle, not 'register', and the check timer is registered, so
\* the guard of the next checkStream tick lets a registration start.
NoCredentialsGoesIdle ==
  [][\A i \in DOMAIN calls' :
       (/\ calls'[i].pc = "done"
        /\ i \in DOMAIN calls => calls[i].pc = "client")
         => /\ stream' = StreamNull
            /\ checkTimer'
            /\ Connections' \subseteq Connections]_vars

\* A registration that waited for a client has just given up: it is done,
\* the status is idle and nothing is in flight or open.
NoCredentialsWitness ==
  /\ last.op = "registerClient"
  /\ calls[last.call].pc = "done"
  /\ stream = StreamNull /\ checkTimer
  /\ Connections = {}

(***************************************************************************)
(* Properties: the poll schedule and the sync boundary                     *)
(***************************************************************************)

\* C22: a poll whose fetch fails is caught inside sync: the sync timer of
\* the device stays registered, nothing of the device, its data or the app
\* changes, and the next tick of the timer can fetch and reconcile again.
FailedPollKeepsSchedule ==
  [][\A d \in Devices :
       (last'.op = "syncFailed" /\ last'.d = d)
         => /\ syncTimer'[d]
            /\ UNCHANGED devVars
            /\ UNCHANGED dataVars
            /\ UNCHANGED appVars
            /\ \A raw \in StatusPolls : (ENABLED Sync(d, raw, "ok", "error"))']_vars

\* A poll of a device has just failed; its sync timer is registered and the
\* next tick can reconcile a tracker record.
FailedPollWitness ==
  /\ last.op = "syncFailed"
  /\ syncTimer[last.d]
  /\ ENABLED Sync(last.d, [state |-> "OPERATIONAL"], "ok", "error")

\* C23: handleSyncData ends in one of two ways and never passes an exception
\* on: when every step succeeded the device is available, when a step threw
\* it is unavailable with the exception's message as reason; in both cases
\* the timers and the subscription of the device and the app are as before.
SyncBoundary ==
  [][\A d \in Devices :
       (last'.op = "handleSyncData" /\ last'.d = d)
         => /\ IF last'.threw
               THEN ~available'[d] /\ unavailableMsg'[d] = "error"
               ELSE available'[d]
            /\ UNCHANGED <<initPc, onUpdate, keepAliveTimer, syncTimer, keepAlive>>
            /\ UNCHANGED appVars]_vars

\* A reconciliation of an available device has just thrown (a geofence
\* without fence_type), and the device is unavailable with that error.
SyncBoundaryWitness ==
  /\ last.op = "handleSyncData" /\ last.threw
  /\ ~available[last.d] /\ unavailableMsg[last.d] = "error"
  /\ syncTimer[last.d] /\ onUpdate[last.d]

(***************************************************************************)
(* Properties: the warning                                                 *)
(***************************************************************************)

\* C24: after a snapshot was reconciled the device's warning is the one of
\* the snapshot's tracker_state_reason when that reason is not_reporting,
\* out_of_battery or shutdown_by_user, and the device has no warning
\* otherwise, also when the snapshot has no state reason.
WarningFollowsReason ==
  [][\A d \in Devices :
       Reconciled(d)
         => warning'[d] = IF Get(last'.data, "tracker_state_reason") \in Reasons
                          THEN Get(last'.data, "tracker_state_reason")
                          ELSE ""]_vars

(***************************************************************************)
(* Properties: values and the capability set                               *)
(***************************************************************************)

\* C25: a capability value is written only for a capability the device
\* declares when it is written, and in every reachable state the
\* capabilities that hold a value are among the declared ones, however the
\* polls and stream messages before added and removed capabilities.
ValuesOnlyOfDeclared ==
  /\ \A d \in Devices : DOMAIN capabilityValues[d] \subseteq capabilities[d]
  /\ (last.op = "handleSyncData" /\ ~last.threw)
       => last.written \subseteq capabilities[last.d]

\* A poll has just removed led_control from a device that held a value for
\* it, while the other device declares it and holds a value.
ValuesWitness ==
  /\ last.op = "handleSyncData" /\ ~last.threw
  /\ "led_control" \in DOMAIN last.values
  /\ "led_control" \notin capabilities[last.d]
  /\ \E e \in Devices \ {last.d} : "led_control" \in DOMAIN capabilityValues[e]

(***************************************************************************)
(* Teardown: a device is deleted while the stream delivers                 *)
(***************************************************************************)
NextTeardown ==
  \/ \E d \in Devices : DeviceDeleted(d)
  \/ \E i \in 1..MaxCalls, msg \in {KeepAliveMessage} \cup StatusMessages :
       OnStreamMessage(i, msg, "ok", "error")
  \/ \E d \in Devices, raw \in StatusPolls : Sync(d, raw, "ok", "error")
  \/ \E d \in Devices : CheckKeepAlive(d)
  \/ Advance

SpecTeardown == InitConnected /\ [][NextTeardown]_vars

\* C26: a device that was torn down is no longer subscribed to the stream's
\* 'update' events and has no timer, and no stream message is reconciled on
\* a torn-down device.
TornDownUnsubscribed ==
  /\ \A d \in Devices :
       initPc[d].at = "deleted" => ~onUpdate[d] /\ ~syncTimer[d] /\ ~keepAliveTimer[d]
  /\ (last.op = "handleSyncData" /\ "message" \in DOMAIN last.raw)
       => initPc[last.d].at # "deleted"

(***************************************************************************)
(* Self-healing: the stream is disturbed and checkStream keeps ticking     *)
(*                                                                         *)
(* The devices initialise; a device and a valid token exist throughout.    *)
(* The stream is closed by the remote end, unregistered by force or        *)
(* refused while a registration can still be started within MaxCalls;      *)
(* checkStream ticks and every request that was not aborted is eventually  *)
(* answered 200.                                                           *)
(***************************************************************************)
Disturbed == Len(calls) < MaxCalls

NextHeal ==
  \/ \E d \in Devices : DeviceInit(d)
  \/ \E d \in Devices : DeviceTimers(d)
  \/ CheckStream
  \/ \E i \in 1..MaxCalls : RegisterResponse(i, 200)
  \/ \E i \in 1..MaxCalls, s \in Statuses \ {200} : Disturbed /\ RegisterResponse(i, s)
  \/ \E i \in 1..MaxCalls : Disturbed /\ OnStreamClosed(i)
  \/ Disturbed /\ ForceUnregister

FairHeal ==
  /\ WF_vars(CheckStream)
  /\ \A i \in 1..MaxCalls : WF_vars(RegisterResponse(i, 200))

SpecHeal == Init /\ [][NextHeal]_vars /\ FairHeal

Connected == stream \in DOMAIN calls /\ Open(stream)

\* C27: whenever the stream status is idle while the check timer runs and a
\* device and a valid token exist, the status is connected again later.
SelfHeals == (stream = StreamNull /\ checkTimer /\ account = "ok") ~> Connected

\* The stream is idle after a disturbance, with the check timer running.
SelfHealsWitness ==
  /\ stream = StreamNull /\ checkTimer /\ account = "ok"
  /\ last.op \in {"onStreamClosed", "unregisterStream", "registerResponse"}

(***************************************************************************)
(* Overlap: a poll and a stream message reconciled at the same time        *)
(*                                                                         *)
(* handleSyncData awaits between its steps (getAddress in processData,     *)
(* driver.ready() in triggerFlows, each sync step), so an execution        *)
(* started by sync and one started by onMessage interleave there.  Each    *)
(* execution is three steps: parse and process, capabilities and           *)
(* triggers, then settings, values, warning and availability.  Here        *)
(* `fired` collects the triggers of the executions that overlap.           *)
(***************************************************************************)
Other(src) == CHOOSE o \in Sources : o # src

Busy(src) == running[src].pc \in {"processed", "triggered"}

\* handleSyncData up to the end of processData: the stored latitude and
\* longitude are read here.
BeginSync(src, d, raw, addr) ==
  /\ running[src].pc = "idle"
  /\ IF src = "poll" THEN syncTimer[d]
     ELSE onUpdate[d] /\ isFor(d, raw) /\ \E i \in DOMAIN calls : Open(i)
  /\ \E parsed \in {parseData(raw)} :
     \E out \in {processData(capabilityValues[d], store[d], parsed, addr, "error")} :
       /\ ~out.threw
       /\ store' = [store EXCEPT ![d] = out.store]
       /\ running' = [running EXCEPT
            ![src] = [pc |-> "processed", d |-> d, data |-> out.data,
                      coords |-> parsed["latlong"], values |-> capabilityValues[d],
                      overlapped |-> Busy(Other(src)) /\ running[Other(src)].d = d],
            ![Other(src)] = IF Busy(Other(src)) /\ @.d = d
                            THEN [@ EXCEPT !.overlapped = TRUE] ELSE @]
       /\ fired' = IF Busy(Other(src)) THEN fired ELSE <<>>
  /\ last' = [op |-> "beginSync", src |-> src, d |-> d]
  /\ UNCHANGED <<capabilities, capabilityValues, settings, warning, inZone>>
  /\ UNCHANGED devVars
  /\ UNCHANGED appVars
  /\ UNCHANGED now

TriggerStepReadsNew(src) ==
  /\ running[src].pc = "processed"
  /\ LET d == running[src].d
         data == running[src].data
         caps == syncCapabilities(capabilities[d], data)
     IN /\ capabilities' = [capabilities EXCEPT ![d] = caps]
        /\ fired' = fired \o triggerFlows(caps, syncCapabilityValues(caps, capabilityValues[d], data), data)
  /\ running' = [running EXCEPT ![src].pc = "triggered"]
  /\ last' = [op |-> "triggerFlows", src |-> src, d |-> running[src].d]
  /\ UNCHANGED <<capabilityValues, settings, warning, store, inZone>>
  /\ UNCHANGED devVars
  /\ UNCHANGED appVars
  /\ UNCHANGED now

\* syncCapabilities and triggerFlows: the stored in_geofence and geofence
\* are read here.
TriggerStep(src) ==
  /\ running[src].pc = "processed"
  /\ LET d == running[src].d
         data == running[src].data
         caps == syncCapabilities(capabilities[d], data)
     IN /\ capabilities' = [capabilities EXCEPT ![d] = caps]
        /\ fired' = fired \o triggerFlows(caps, capabilityValues[d], data)
  /\ running' = [running EXCEPT ![src].pc = "triggered"]
  /\ last' = [op |-> "triggerFlows", src |-> src, d |-> running[src].d]
  /\ UNCHANGED <<capabilityValues, settings, warning, store, inZone>>
  /\ UNCHANGED devVars
  /\ UNCHANGED appVars
  /\ UNCHANGED now

\* syncSettings, syncCapabilityValues, syncWarning and setAvailable.
CommitStep(src) ==
  /\ running[src].pc = "triggered"
  /\ LET d == running[src].d
         data == running[src].data
     IN /\ settings' = [settings EXCEPT ![d] = syncSettings(settings[d], data)]
        /\ capabilityValues' = [capabilityValues EXCEPT ![d] =
             syncCapabilityValues(capabilities[d],
                                  removeCapability(capabilityValues[d], capabilities[d]), data)]
        /\ warning' = [warning EXCEPT ![d] = syncWarning(warning[d], data)]
        /\ available' = [available EXCEPT ![d] = TRUE]
        /\ unavailableMsg' = [unavailableMsg EXCEPT ![d] = "none"]
  /\ running' = [running EXCEPT ![src].pc = "done"]
  /\ last' = [op |-> "commit", src |-> src, d |-> running[src].d]
  /\ UNCHANGED <<capabilities, store, fired, inZone>>
  /\ UNCHANGED <<initPc, onUpdate, keepAliveTimer, syncTimer, keepAlive>>
  /\ UNCHANGED appVars
  /\ UNCHANGED now

\* The payload of a source that reports the position p of tracker d.
PositionOf(src, d, p) ==
  IF src = "poll" THEN [position |-> [latlong |-> p]]
  ELSE [message |-> "tracker_status", tracker_id |-> d, position |-> [latlong |-> p]]

\* The geofences are polled first; then one poll and one stream message are
\* reconciled, in any interleaving of their steps.
NextOverlap ==
  \/ \E d \in Devices, l \in FenceLists :
       /\ \A src \in Sources : running[src].pc = "idle"
       /\ Sync(d, [geofences |-> l], "ok", "error")
  \/ \E src \in Sources, d \in Devices, p \in Points, addr \in Lookups :
       BeginSync(src, d, PositionOf(src, d, p), addr)
  \/ \E src \in Sources : TriggerStep(src)
  \/ \E src \in Sources : CommitStep(src)

SpecOverlap == InitConnected /\ [][NextOverlap]_vars

\* C28: when a poll and a stream message that report the same new position
\* inside a fence are reconciled in overlapping executions on a device
\* whose stored in_geofence is not true, 'entered geofence' fires once and
\* 'location changed' fires once in total.
NoDuplicateTriggers ==
  LET p == running["poll"]
      m == running["stream"]
  IN (/\ p.pc = "done" /\ m.pc = "done"
      /\ p.overlapped /\ m.overlapped
      /\ p.d = m.d /\ p.coords = m.coords
      /\ \A r \in {p, m} :
           /\ ~Truthy(r.values, "in_geofence")
           /\ "address" \in DOMAIN r.data
           /\ Get(r.data, "in_geofence") = TRUE)
       => /\ Cardinality(Of(fired, "in_geofence_true")) = 1
          /\ Cardinality(Of(fired, "location_changed")) = 1

\* C30: the steps of one handleSyncData execution run in the order
\* capabilities, triggers, settings, values, warning: the trigger step
\* follows processing, decides on the capability values that are stored at
\* that moment and writes none; the commit step follows the trigger step,
\* fires nothing more and stores the snapshot's values of the declared
\* capabilities.
StepsInOrder ==
  [][LET src == last'.src
         d == running[src].d
         data == running[src].data
     IN /\ last'.op = "triggerFlows"
             => /\ running[src].pc = "processed"
                /\ fired' = fired \o triggerFlows(capabilities'[d], capabilityValues[d], data)
                /\ UNCHANGED <<capabilityValues, settings, warning>>
        /\ last'.op = "commit"
             => /\ running[src].pc = "triggered"
                /\ fired' = fired
                /\ \A name \in DOMAIN data \cap capabilities[d] :
                     Get(capabilityValues'[d], name) = data[name]
                /\ settings'[d] = syncSettings(settings[d], data)
                /\ warning'[d] = syncWarning(warning[d], data)]_vars

\* One execution that overlapped no other has just committed in_geofence =
\* true, after its trigger step fired 'entered geofence' on the old value.
StepsInOrderWitness ==
  /\ last.op = "commit"
  /\ ~running[last.src].overlapped
  /\ ~Truthy(running[last.src].values, "in_geofence")
  /\ Truthy(capabilityValues[last.d], "in_geofence")
  /\ Cardinality(Of(fired, "in_geofence_true")) = 1

(***************************************************************************)
(* Commands: the actions a user invokes                                    *)
(***************************************************************************)
Commands == {"buzzer_control", "led_control", "live_tracking"}

\* What the vendor does with GET /tracker/{id}/command/{command}/{state}:
\* it answers {pending: true}, it answers without a pending flag, or the
\* request fails (network error, status that is not ok).
Answers == {"pending", "notPending", "failed"}

sendCommandAccepts(answer) == FALSE

\* Client.sendCommand throws: the request rejects, or `!response.pending`.
sendCommandThrows(answer) == answer # "pending"

powerSavingThrowsForAll(values, command, enabled) ==
  Get(values, "tracker_state") = "power_saving"

\* Device.setBuzzer and Device.setLight throw before any request when the
\* tracker is switched on while it is in power saving.
powerSavingThrows(values, command, enabled) ==
  /\ command \in {"buzzer_control", "led_control"}
  /\ enabled
  /\ Get(values, "tracker_state") = "power_saving"

\* Device.setBuzzer / setLight / setLive called by an action card; sent
\* says whether the command request is made, failed whether the call
\* rejects.
Command(d, command, enabled, answer) ==
  /\ last' = [op |-> "command", d |-> d, command |-> command, enabled |-> enabled,
              answer |-> answer,
              sent |-> ~powerSavingThrows(capabilityValues[d], command, enabled),
              failed |-> \/ powerSavingThrows(capabilityValues[d], command, enabled)
                         \/ sendCommandThrows(answer)]
  /\ UNCHANGED devVars
  /\ UNCHANGED dataVars
  /\ UNCHANGED appVars
  /\ UNCHANGED now

CommandPolls ==
  {[state |-> "OPERATIONAL"], [state |-> "NOT_REPORTING"], [state_reason |-> "POWER_SAVING"],
   [geofences |-> <<MalformedFence>>]}

NextCommands ==
  \/ \E d \in Devices, c \in Commands, e \in BOOLEAN, a \in Answers : Command(d, c, e, a)
  \/ \E d \in Devices, raw \in CommandPolls : Sync(d, raw, "ok", "error")

SpecCommands == InitConnected /\ [][NextCommands]_vars

\* C29: a command whose request fails or whose answer carries no pending
\* flag fails for its caller, and the failed command leaves the device's
\* availability, warning and capability values as they were.
CommandFailurePropagates ==
  [][(last'.op = "command" /\ last'.answer # "pending")
       => /\ last'.failed
          /\ UNCHANGED <<available, unavailableMsg, warning, capabilityValues>>]_vars

\* A command was just refused by the vendor on a device that has a warning
\* and stored values, while the other device is unavailable.
CommandWitness ==
  /\ last.op = "command" /\ last.answer = "notPending" /\ last.failed
  /\ warning[last.d] # "" /\ capabilityValues[last.d] # Empty
  /\ \E e \in Devices : ~available[e]

\* C38: while the stored tracker_state is 'power_saving', switching the
\* buzzer or the light on fails without a command being sent; switching
\* them off, and setLive with either value, send the command whatever the
\* stored tracker_state is.
PowerSavingBlocksSwitchOn ==
  [][last'.op = "command" =>
       IF /\ last'.command \in {"buzzer_control", "led_control"}
          /\ last'.enabled
          /\ Get(capabilityValues[last'.d], "tracker_state") = "power_saving"
       THEN last'.failed /\ ~last'.sent
       ELSE last'.sent]_vars

\* The light was switched on while the tracker is stored as power saving:
\* the call failed although the vendor would have accepted the command.
PowerSavingWitnessCommand ==
  /\ last.op = "command" /\ last.command = "led_control" /\ last.enabled
  /\ last.answer = "pending"
  /\ Get(capabilityValues[last.d], "tracker_state") = "power_saving"
  /\ last.failed /\ ~last.sent

(***************************************************************************)
(* The caches of geofences and power-saving zones                          *)
(***************************************************************************)
ZoneLists ==
  {ZoneList,
   <<[_id |-> "z2", name |-> "Road "], [_id |-> "z3", name |-> " Yard "]>>,
   <<>>}

\* Polls with one section, with both, with a section that cannot be saved,
\* and with none.
CachePolls ==
  {[geofences |-> l] : l \in FenceLists \cup {<<>>, <<MalformedFence>>}}
  \cup {[power_saving_zones |-> z] : z \in ZoneLists}
  \cup {[geofences |-> <<Road, Yard>>, power_saving_zones |-> ZoneList]}
  \cup {[position |-> [latlong |-> <<1, 0>>]]}

CacheMessages ==
  {[message |-> "tracker_status", tracker_id |-> t, position |-> [latlong |-> <<3, 0>>]] :
     t \in Devices}

NextCaches ==
  \/ \E d \in Devices, raw \in CachePolls : Sync(d, raw, "ok", "error")
  \/ \E i \in 1..MaxCalls, msg \in CacheMessages : OnStreamMessage(i, msg, "ok", "error")

SpecCaches == InitConnected /\ [][NextCaches]_vars

ActiveNamed(entry) == entry.active /\ entry.name # ""

\* The cache holds the active, named entries of the section, in the
\* section's order, with trimmed names.
GeofencesFrom(cache, section) ==
  LET kept == SelectSeq(section, ActiveNamed)
  IN /\ Len(cache) = Len(kept)
     /\ \A i \in DOMAIN kept :
          /\ cache[i].name = trim(kept[i].name)
          /\ cache[i].coords = kept[i].coords
          /\ cache[i].radius = kept[i].radius

\* The cache holds the named zones of the section under their ids, with
\* trimmed names.
ZonesFrom(cache, section) ==
  /\ DOMAIN cache = {section[i]._id : i \in {j \in DOMAIN section : section[j].name # ""}}
  /\ \A id \in DOMAIN cache :
       \E i \in DOMAIN section : section[i]._id = id /\ cache[id] = trim(section[i].name)

\* C34: each cache is replaced as a whole, and only by an update that has
\* its section: after a reconciliation of a payload with a geofences (a
\* power_saving_zones) field the cache is made of that field's entries
\* alone, and any other update, a failed one included, leaves the cache as
\* it was.
CachesReplacedWholesale ==
  [][\A d \in Devices :
       (last'.op = "handleSyncData" /\ last'.d = d) =>
         /\ IF ~last'.threw /\ "geofences" \in DOMAIN last'.raw
            THEN GeofencesFrom(store'[d].geofences, last'.raw["geofences"])
            ELSE store'[d].geofences = store[d].geofences
         /\ IF ~last'.threw /\ "power_saving_zones" \in DOMAIN last'.raw
            THEN ZonesFrom(store'[d].power_saving_zones, last'.raw["power_saving_zones"])
            ELSE store'[d].power_saving_zones = store[d].power_saving_zones]_vars

\* A poll with the fences <<Home, Yard, Road>>, Home inactive, replaced a
\* cache that held <<Road, Yard>>, while the zone cache kept its entry.
CachesWitness ==
  /\ last.op = "handleSyncData" /\ ~last.threw
  /\ "geofences" \in DOMAIN last.raw /\ last.raw["geofences"] = <<Home, Yard, Road>>
  /\ Len(store[last.d].geofences) = 2
  /\ store[last.d].geofences[1].name = "Yard"
  /\ store[last.d].geofences[2].name = "Road"
  /\ DOMAIN store[last.d].power_saving_zones = {"z1"}

====
